---- MODULE Spec2Model ----
(***************************************************************************)
(* Model of the invoice extraction-and-naming pipeline (src/parser.py)     *)
(* and of the batch worker that drives it (src/app.py, InvoiceApp.worker). *)
(*                                                                         *)
(* Representation of Python values                                         *)
(*   str        a sequence of one-character strings, <<"a", "b">>          *)
(*   None       the one-element sequence None == <<"None">>; no str value  *)
(*              is equal to it, because every element of a str is a single *)
(*              character                                                  *)
(*   messages   reason strings of the program are never inspected          *)
(*              character by character, so a literal such as "Empty PDF"   *)
(*              is kept as one element; text spliced into a reason (an     *)
(*              exception message) is appended character by character      *)
(*   dict       a function from keys (TLA+ strings) to values              *)
(***************************************************************************)
EXTENDS Integers, Sequences, FiniteSets, TLC

VARIABLES
  platform,   \* what the C library under datetime.strftime does with %Y
  call,       \* the last call of a public function of parser.py and its result
  pc,         \* position of InvoiceApp.worker
  cfg,        \* (scheme, by_month, is_dry) read by InvoiceApp.start_processing
  files,      \* the documents of the input folder, in os.listdir order
  idx,        \* number of files the worker loop has finished
  res,        \* the ParseResult of the file the loop body is working on
  results,    \* self.results
  fs,         \* the regular files that exist under the output folder
  queue,      \* self.queue, the messages sent to the UI thread
  ops         \* the path and file system calls made so far, in order

vars == <<platform, call, pc, cfg, files, idx, res, results, fs, queue, ops>>

(***************************************************************************)
(* Characters and strings                                                  *)
(***************************************************************************)
None == <<"None">>

Digits == {"0", "1", "2", "3", "4", "5", "6", "7", "8", "9"}

UpperCase == <<"A", "B", "C", "D", "E", "F", "G", "H", "I", "J", "K", "L", "M",
               "N", "O", "P", "Q", "R", "S", "T", "U", "V", "W", "X", "Y", "Z">>

LowerCase == <<"a", "b", "c", "d", "e", "f", "g", "h", "i", "j", "k", "l", "m",
               "n", "o", "p", "q", "r", "s", "t", "u", "v", "w", "x", "y", "z">>

Range(s) == {s[i] : i \in DOMAIN s}

Letters == Range(UpperCase) \cup Range(LowerCase)

\* the characters str.strip() removes and the regex class \s matches
Whitespace == {" ", "\t", "\n", "\r"}

Min(S) == CHOOSE x \in S : \A y \in S : x <= y

Max(S) == CHOOSE x \in S : \A y \in S : x >= y

\* s[:n]
Take(s, n) == SubSeq(s, 1, IF n < Len(s) THEN n ELSE Len(s))

\* s[n:]
Drop(s, n) == SubSeq(s, n + 1, Len(s))

\* the lower-case letter of every upper-case letter
LowerOf ==
  [c \in Range(UpperCase) |->
     LowerCase[CHOOSE i \in DOMAIN UpperCase : UpperCase[i] = c]]

\* c.lower() for one character
LowerChar(c) == IF c \in DOMAIN LowerOf THEN LowerOf[c] ELSE c

\* str.lower()
Lower(s) == [i \in DOMAIN s |-> LowerChar(s[i])]

\* sub in s, for str operands
Contains(s, sub) ==
  \E i \in 1..(Len(s) - Len(sub) + 1) : SubSeq(s, i, i + Len(sub) - 1) = sub

\* the number of consecutive characters of s from position i on that are in C
RECURSIVE RunLen(_, _, _)
RunLen(s, i, C) ==
  IF i > Len(s) \/ s[i] \notin C THEN 0 ELSE 1 + RunLen(s, i + 1, C)

\* the number of consecutive characters of s from position i back that are in C
RECURSIVE RunLenBack(_, _, _)
RunLenBack(s, i, C) ==
  IF i < 1 \/ s[i] \notin C THEN 0 ELSE 1 + RunLenBack(s, i - 1, C)

\* str.strip()
Strip(s) ==
  LET lead == RunLen(s, 1, Whitespace)
  IN IF lead = Len(s) THEN <<>>
     ELSE SubSeq(s, lead + 1, Len(s) - RunLenBack(s, Len(s), Whitespace))

\* the literal lit occurs in s at position i, ignoring case (re.IGNORECASE)
LitAt(s, i, lit) ==
  /\ i >= 1
  /\ i + Len(lit) - 1 <= Len(s)
  /\ Lower(SubSeq(s, i, i + Len(lit) - 1)) = lit

\* n copies of the character c
Rep(c, n) == [i \in 1..n |-> c]

\* the elements of a sequence of strings joined with sep
RECURSIVE Join(_, _)
Join(parts, sep) ==
  IF parts = <<>> THEN <<>>
  ELSE IF Len(parts) = 1 THEN parts[1]
  ELSE parts[1] \o sep \o Join(Tail(parts), sep)

\* bool(v) of a Python value that is None or a str
Truthy(v) == v # None /\ v # <<>>

(***************************************************************************)
(* Status, NamingScheme, ParseResult                                       *)
(***************************************************************************)
OK == "OK"

PARTIAL == "PARTIAL"

SKIPPED == "SKIPPED"

Status == {OK, PARTIAL, SKIPPED}

INVOICE_NUMBER == "invoice_number"

VENDOR_NAME == "vendor_name"

ORIGINAL_FILENAME == "original_filename"

NamingScheme == {INVOICE_NUMBER, VENDOR_NAME, ORIGINAL_FILENAME}

\* the keys of the field map, in the insertion order of the dict literal
FieldKeys == <<"invoice_number", "date", "total_amount", "vendor">>

ParseResult(filename, status, reason, data) ==
  [filename |-> filename, status |-> status, reason |-> reason, data |-> data,
   proposed_filename |-> <<>>, target_path |-> <<>>]

MAX_FILENAME_LENGTH == 200

ILLEGAL_CHARS == {"\\", "/", ":", "*", "?", "\"", "<", ">", "|"}

(***************************************************************************)
(* Document Reader                                                         *)
(*                                                                         *)
(* What pdfplumber does with a path is an input of the model: a record     *)
(*   [raises |-> BOOLEAN, msg |-> str(e), npages |-> Nat, text |-> str]    *)
(* raises: open, .pages, extract_text or close raised Exception(msg);      *)
(* text is what pages[0].extract_text() returns (None or a str).           *)
(***************************************************************************)
MinTextLength == 20

MaxErrorLength == 50

PasswordWord == <<"p", "a", "s", "s", "w", "o", "r", "d">>

\* the except branch of extract_text_from_pdf
ReadErrorReason(msg) ==
  IF Contains(Lower(msg), PasswordWord)
  THEN <<"Encrypted/Password Protected">>
  ELSE <<"Read Error: ">> \o Take(msg, MaxErrorLength)

\* the reader with len(text) < 20 in place of len(text.strip()) < 20
extract_text_from_pdf_unstripped(pdf) ==
  IF pdf.raises THEN <<None, ReadErrorReason(pdf.msg)>>
  ELSE IF pdf.npages = 0 THEN <<None, <<"Empty PDF">> >>
  ELSE IF ~Truthy(pdf.text) \/ Len(pdf.text) < MinTextLength
       THEN <<None, <<"Scanned PDF - unsupported">> >>
  ELSE <<pdf.text, None>>

\* returns the pair <<text, error_message>>
extract_text_from_pdf(pdf) ==
  IF pdf.raises THEN <<None, ReadErrorReason(pdf.msg)>>
  ELSE IF pdf.npages = 0 THEN <<None, <<"Empty PDF">> >>
  ELSE IF ~Truthy(pdf.text) \/ Len(Strip(pdf.text)) < MinTextLength
       THEN <<None, <<"Scanned PDF - unsupported">> >>
  ELSE <<pdf.text, None>>

(***************************************************************************)
(* Field Extractor: parse_invoice_data.  The regular expressions are       *)
(* matched as re.search matches them: leftmost start first, each           *)
(* quantifier greedy.  In every pattern below the text that may follow a   *)
(* repetition cannot start with a character of the repeated class, so the  *)
(* match at a given start consumes maximal runs and is unique.             *)
(***************************************************************************)
TokenChars == Letters \cup Digits \cup {"-", "_", "/"}

DateSeparators == {"/", "-", "."}

\* re.sub(r'\r', '\n', text)
NormalizeNewlines(s) == [i \in DOMAIN s |-> IF s[i] = "\r" THEN "\n" ELSE s[i]]

\* s.split(sep) for a one-character separator
RECURSIVE Split(_, _)
Split(s, sep) ==
  LET at == {i \in DOMAIN s : s[i] = sep}
  IN IF at = {} THEN <<s>>
     ELSE <<SubSeq(s, 1, Min(at) - 1)>> \o Split(Drop(s, Min(at)), sep)

\* position after (?:No\.?|Number|#) matched at p, 0 when no alternative matches
InvLabelEnd(s, p) ==
  IF LitAt(s, p, <<"n", "o">>)
  THEN IF p + 2 <= Len(s) /\ s[p + 2] = "." THEN p + 3 ELSE p + 2
  ELSE IF LitAt(s, p, <<"n", "u", "m", "b", "e", "r">>) THEN p + 6
  ELSE IF LitAt(s, p, <<"#">>) THEN p + 1
  ELSE 0

\* group 1 of (?:Invoice\s*(?:No\.?|Number|#)\s*[:\s]*)\s*([A-Za-z0-9\-_/]{2,})
\* matched at start i, None when the pattern does not match there
InvPattern1At(s, i) ==
  IF ~LitAt(s, i, <<"i", "n", "v", "o", "i", "c", "e">>) THEN None
  ELSE LET p == i + 7 + RunLen(s, i + 7, Whitespace)
           q == InvLabelEnd(s, p)
       IN IF q = 0 THEN None
          ELSE LET t == q + RunLen(s, q, Whitespace \cup {":"})
                   n == RunLen(s, t, TokenChars)
               IN IF n >= 2 THEN SubSeq(s, t, t + n - 1) ELSE None

\* group 1 of #\s*(\d{4,}) matched at start i
InvPattern2At(s, i) ==
  IF ~LitAt(s, i, <<"#">>) THEN None
  ELSE LET t == i + 1 + RunLen(s, i + 1, Whitespace)
           n == RunLen(s, t, Digits)
       IN IF n >= 4 THEN SubSeq(s, t, t + n - 1) ELSE None

\* end of \d{1,2}[\/\-\.] matched at p: the position after the separator, or 0
DayOrMonthThenSep(s, p) ==
  LET n == RunLen(s, p, Digits)
  IN IF n \in {1, 2} /\ p + n <= Len(s) /\ s[p + n] \in DateSeparators
     THEN p + n + 1 ELSE 0

\* group 1 of (?:Date)[\s:]*(\d{1,2}[\/\-\.]\d{1,2}[\/\-\.]\d{2,4}) at start i
DatePattern1At(s, i) ==
  IF ~LitAt(s, i, <<"d", "a", "t", "e">>) THEN None
  ELSE LET p == i + 4 + RunLen(s, i + 4, Whitespace \cup {":"})
           q == DayOrMonthThenSep(s, p)
           r == IF q = 0 THEN 0 ELSE DayOrMonthThenSep(s, q)
           n == IF r = 0 THEN 0 ELSE RunLen(s, r, Digits)
       IN IF r # 0 /\ n >= 2
          THEN SubSeq(s, p, r + (IF n > 4 THEN 4 ELSE n) - 1)
          ELSE None

\* group 1 of (\d{4}[\/\-\.]\d{1,2}[\/\-\.]\d{1,2}) at start i
DatePattern2At(s, i) ==
  IF ~(i + 4 <= Len(s) /\ (\A j \in i..(i + 3) : s[j] \in Digits)
       /\ s[i + 4] \in DateSeparators)
  THEN None
  ELSE LET q == DayOrMonthThenSep(s, i + 5)
           n == IF q = 0 THEN 0 ELSE RunLen(s, q, Digits)
       IN IF q # 0 /\ n >= 1
          THEN SubSeq(s, i, q + (IF n > 2 THEN 2 ELSE n) - 1)
          ELSE None

\* group 1 of ([A-Za-z]{3,9}\s+\d{1,2},?\s+\d{4}) at start i
DatePattern3At(s, i) ==
  LET l  == RunLen(s, i, Letters)
      w  == RunLen(s, i + l, Whitespace)
      d  == i + l + w
      nd == RunLen(s, d, Digits)
      c  == IF d + nd <= Len(s) /\ s[d + nd] = "," THEN d + nd + 1 ELSE d + nd
      w2 == RunLen(s, c, Whitespace)
      y  == c + w2
  IN IF /\ l >= 3 /\ l <= 9 /\ w >= 1 /\ nd \in {1, 2} /\ w2 >= 1
        /\ RunLen(s, y, Digits) >= 4
     THEN SubSeq(s, i, y + 3)
     ELSE None

\* re.search: the match at the leftmost start, None when there is none;
\* at[i] is the match that starts at position i
Search(at) ==
  LET starts == {i \in DOMAIN at : at[i] # None}
  IN IF starts = {} THEN None ELSE at[Min(starts)]

REJECTED_INVOICE_VALUES ==
  {<<"d", "a", "t", "e">>, <<"n", "o">>, <<"n", "u", "m", "b", "e", "r">>}

\* the loop that gives up when the match of the first pattern is rejected
ExtractInvoiceNumber_first_match_only(text) ==
  LET m1 == Search([i \in DOMAIN text |-> InvPattern1At(text, i)])
      m2 == Search([i \in DOMAIN text |-> InvPattern2At(text, i)])
  IN IF m1 # None
     THEN IF Lower(Strip(m1)) \notin REJECTED_INVOICE_VALUES THEN Strip(m1)
          ELSE None
     ELSE IF m2 # None THEN Strip(m2)
     ELSE None

\* the loop over inv_patterns: the first pattern whose match is accepted
ExtractInvoiceNumber(text) ==
  LET m1 == Search([i \in DOMAIN text |-> InvPattern1At(text, i)])
      m2 == Search([i \in DOMAIN text |-> InvPattern2At(text, i)])
  IN IF m1 # None /\ Lower(Strip(m1)) \notin REJECTED_INVOICE_VALUES
     THEN Strip(m1)
     ELSE IF m2 # None /\ Lower(Strip(m2)) \notin REJECTED_INVOICE_VALUES
     THEN Strip(m2)
     ELSE None

\* m.group(1).replace('/', '-').replace('.', '-')
NormalizeDateSeparators(s) ==
  [i \in DOMAIN s |-> IF s[i] \in {"/", "."} THEN "-" ELSE s[i]]

\* the loop over date_patterns: the first pattern that matches
ExtractDate(text) ==
  LET m1 == Search([i \in DOMAIN text |-> DatePattern1At(text, i)])
      m2 == Search([i \in DOMAIN text |-> DatePattern2At(text, i)])
      m3 == Search([i \in DOMAIN text |-> DatePattern3At(text, i)])
  IN IF m1 # None THEN NormalizeDateSeparators(m1)
     ELSE IF m2 # None THEN NormalizeDateSeparators(m2)
     ELSE IF m3 # None THEN NormalizeDateSeparators(m3)
     ELSE None

\* the match of [\d,]+\.\d{2} that starts at i, None when there is none
AmountAt(s, i) ==
  LET n == RunLen(s, i, Digits \cup {","})
  IN IF /\ n >= 1 /\ i + n + 2 <= Len(s) /\ s[i + n] = "."
        /\ s[i + n + 1] \in Digits /\ s[i + n + 2] \in Digits
     THEN SubSeq(s, i, i + n + 2)
     ELSE None

\* re.findall(r'[\d,]+\.\d{2}', line[pos:]): leftmost, non-overlapping
RECURSIVE FindAmounts(_, _)
FindAmounts(line, pos) ==
  LET starts == {i \in pos..Len(line) : AmountAt(line, i) # None}
  IN IF starts = {} THEN <<>>
     ELSE LET m == AmountAt(line, Min(starts))
          IN <<m>> \o FindAmounts(line, Min(starts) + Len(m))

TotalWord == <<"t", "o", "t", "a", "l">>

SubWord == <<"s", "u", "b">>

\* the line qualifies and holds an amount
IsTotalLine(line) ==
  /\ Contains(Lower(line), TotalWord)
  /\ ~Contains(Lower(line), SubWord)
  /\ FindAmounts(line, 1) # <<>>

\* the loop that takes the first amount of the line
ExtractTotalAmount_first_amount(lines) ==
  LET hits == {i \in DOMAIN lines : IsTotalLine(lines[i])}
  IN IF hits = {} THEN None
     ELSE FindAmounts(lines[Min(hits)], 1)[1]

\* the loop over lines: the last amount of the first qualifying line
ExtractTotalAmount(lines) ==
  LET hits == {i \in DOMAIN lines : IsTotalLine(lines[i])}
  IN IF hits = {} THEN None
     ELSE LET a == FindAmounts(lines[Min(hits)], 1) IN a[Len(a)]

VENDOR_KEYWORDS ==
  {<<"i", "n", "c">>, <<"l", "l", "c">>, <<"l", "t", "d">>,
   <<"g", "m", "b", "h">>, <<"c", "o", "r", "p">>}

VendorHeaderLines == 5

\* the loop over lines[:5]: the first line with a legal-entity keyword, stripped
ExtractVendor(lines) ==
  LET hits == {i \in DOMAIN lines :
                 /\ i <= VendorHeaderLines
                 /\ \E k \in VENDOR_KEYWORDS : Contains(Lower(lines[i]), k)}
  IN IF hits = {} THEN None ELSE Strip(lines[Min(hits)])

\* the extractor with a field map that has no vendor key until a vendor is found
parse_invoice_data_vendor_on_match(text0) ==
  LET text  == NormalizeNewlines(text0)
      lines == Split(text, "\n")
      found == [invoice_number |-> ExtractInvoiceNumber(text),
                date           |-> ExtractDate(text),
                total_amount   |-> ExtractTotalAmount(lines)]
  IN IF ExtractVendor(lines) = None THEN found
     ELSE [k \in DOMAIN found \cup {"vendor"} |->
             IF k = "vendor" THEN ExtractVendor(lines) ELSE found[k]]

parse_invoice_data(text0) ==
  LET text  == NormalizeNewlines(text0)
      lines == Split(text, "\n")
  IN [invoice_number |-> ExtractInvoiceNumber(text),
      date           |-> ExtractDate(text),
      total_amount   |-> ExtractTotalAmount(lines),
      vendor         |-> ExtractVendor(lines)]

(***************************************************************************)
(* Classifier: process_single_pdf                                          *)
(***************************************************************************)
\* the list of missing fields without the exemption of the vendor
MissingFields_with_vendor(data) ==
  SelectSeq(FieldKeys, LAMBDA k : ~Truthy(data[k]))

\* [k for k, v in data.items() if not v and k != 'vendor']
MissingFields(data) ==
  SelectSeq(FieldKeys, LAMBDA k : k # "vendor" /\ ~Truthy(data[k]))

\* f"Missing: {', '.join(missing)}"
MissingReason(missing) ==
  <<"Missing: ">> \o Join([i \in DOMAIN missing |-> <<missing[i]>>], <<", ">>)

EmptyDict == [k \in {} |-> None]

\* the orchestration with a failed read classified like a failed extraction
process_single_pdf_partial_on_error(pdf, filename) ==
  LET r     == extract_text_from_pdf(pdf)
      text  == r[1]
      error == r[2]
  IN IF Truthy(error)
     THEN ParseResult(filename, PARTIAL, <<"Low confidence extraction">>,
                      EmptyDict)
     ELSE LET data    == parse_invoice_data(text)
              missing == MissingFields(data)
          IN IF missing = <<>>
             THEN ParseResult(filename, OK, <<"All fields found">>, data)
             ELSE IF Len(missing) < 3
             THEN ParseResult(filename, PARTIAL, MissingReason(missing), data)
             ELSE ParseResult(filename, PARTIAL,
                              <<"Low confidence extraction">>, data)

process_single_pdf(pdf, filename) ==
  LET r     == extract_text_from_pdf(pdf)
      text  == r[1]
      error == r[2]
  IN IF Truthy(error)
     THEN ParseResult(filename, SKIPPED, error, EmptyDict)
     ELSE LET data    == parse_invoice_data(text)
              missing == MissingFields(data)
          IN IF missing = <<>>
             THEN ParseResult(filename, OK, <<"All fields found">>, data)
             ELSE IF Len(missing) < 3
             THEN ParseResult(filename, PARTIAL, MissingReason(missing), data)
             ELSE ParseResult(filename, PARTIAL,
                              <<"Low confidence extraction">>, data)

(***************************************************************************)
(* Name Synthesizer                                                        *)
(***************************************************************************)
Unknown == <<"u", "n", "k", "n", "o", "w", "n">>

UnknownVendor ==
  <<"U", "n", "k", "n", "o", "w", "n", "_", "V", "e", "n", "d", "o", "r">>

PdfExt == <<".", "p", "d", "f">>

\* the substitution with the blank among the replaced characters
ReplaceIllegal_and_spaces(name) ==
  [i \in DOMAIN name |->
     IF name[i] \in ILLEGAL_CHARS \cup {" "} THEN "_" ELSE name[i]]

\* re.sub(ILLEGAL_CHARS, '_', name)
ReplaceIllegal(name) ==
  [i \in DOMAIN name |-> IF name[i] \in ILLEGAL_CHARS THEN "_" ELSE name[i]]

\* sanitization that only trims and cuts
sanitize_filename_trim_only(name) ==
  IF ~Truthy(name) THEN Unknown
  ELSE Take(Strip(name), MAX_FILENAME_LENGTH)

\* sanitization that cuts before it trims: name[:MAX_FILENAME_LENGTH].strip()
sanitize_filename_cut_then_trim(name) ==
  IF ~Truthy(name) THEN Unknown
  ELSE Strip(Take(ReplaceIllegal(name), MAX_FILENAME_LENGTH))

sanitize_filename(name) ==
  IF ~Truthy(name) THEN Unknown
  ELSE Take(Strip(ReplaceIllegal(name)), MAX_FILENAME_LENGTH)

\* os.path.splitext(p) on a POSIX system: <<root, ext>>.  The extension starts
\* at the last dot, when that dot follows the last "/" and some character
\* between them is not a dot.
splitext(p) ==
  LET sepIndex == Max({0} \cup {i \in DOMAIN p : p[i] = "/"})
      dotIndex == Max({0} \cup {i \in DOMAIN p : p[i] = "."})
  IN IF dotIndex > sepIndex
        /\ \E j \in (sepIndex + 1)..(dotIndex - 1) : p[j] # "."
     THEN <<SubSeq(p, 1, dotIndex - 1), Drop(p, dotIndex - 1)>>
     ELSE <<p, <<>> >>

\* data.get(key, default)
Get(data, key, default) == IF key \in DOMAIN data THEN data[key] ELSE default

DigitSeq == <<"0", "1", "2", "3", "4", "5", "6", "7", "8", "9">>

DigitVal(c) == (CHOOSE i \in DOMAIN DigitSeq : DigitSeq[i] = c) - 1

\* int(s) for a string of digits and blanks
RECURSIVE ToInt(_)
ToInt(s) ==
  IF s = <<>> THEN 0
  ELSE IF s[Len(s)] \notin Digits THEN ToInt(SubSeq(s, 1, Len(s) - 1))
  ELSE 10 * ToInt(SubSeq(s, 1, Len(s) - 1)) + DigitVal(s[Len(s)])

\* str(n) for n >= 0
RECURSIVE IntToStr(_)
IntToStr(n) ==
  IF n < 10 THEN <<DigitSeq[n + 1]>>
  ELSE IntToStr(n \div 10) \o <<DigitSeq[(n % 10) + 1]>>

\* n written with at least w digits
ZeroPad(n, w) ==
  LET d == IntToStr(n) IN Rep("0", IF Len(d) < w THEN w - Len(d) ELSE 0) \o d

\* The formats of generate_proposed_filename; "Y", "m", "d" stand for the
\* directives %Y, %m, %d and every other element is a literal character.
DATE_FORMATS ==
  << <<"Y", "-", "m", "-", "d">>,
     <<"m", "/", "d", "/", "Y">>,
     <<"d", "/", "m", "/", "Y">>,
     <<"Y", "/", "m", "/", "d">> >>

Directives == {"Y", "m", "d"}

\* The regular expression _strptime compiles for a directive, as the ordered
\* list of its alternatives:
\*   %Y  \d\d\d\d
\*   %m  1[0-2] | 0[1-9] | [1-9]
\*   %d  3[01] | [12]\d | 0[1-9] | [1-9] | " "[1-9]
DirectiveAlternatives(dir) ==
  CASE dir = "Y" -> << <<Digits, Digits, Digits, Digits>> >>
    [] dir = "m" -> << <<{"1"}, {"0", "1", "2"}>>,
                       <<{"0"}, Digits \ {"0"}>>,
                       <<Digits \ {"0"}>> >>
    [] dir = "d" -> << <<{"3"}, {"0", "1"}>>,
                       <<{"1", "2"}, Digits>>,
                       <<{"0"}, Digits \ {"0"}>>,
                       <<Digits \ {"0"}>>,
                       <<{" "}, Digits \ {"0"}>> >>

\* the character classes alt match s at position pos
AltAt(s, pos, alt) ==
  /\ pos + Len(alt) - 1 <= Len(s)
  /\ \A j \in DOMAIN alt : s[pos + j - 1] \in alt[j]

NoMatch == [ok |-> FALSE]

\* The match of the compiled format from element k on, at position pos of s:
\* alternatives are tried in order and the first one after which the rest of
\* the format matches is taken (regex backtracking).  acc holds the groups.
RECURSIVE FormatMatch(_, _, _, _, _)
FormatMatch(s, pos, fmt, k, acc) ==
  IF k > Len(fmt) THEN [acc EXCEPT !.end = pos - 1]
  ELSE IF fmt[k] \notin Directives
  THEN IF pos <= Len(s) /\ s[pos] = fmt[k]
       THEN FormatMatch(s, pos + 1, fmt, k + 1, acc)
       ELSE NoMatch
  ELSE LET alts == DirectiveAlternatives(fmt[k])
           after(a) == FormatMatch(s, pos + Len(alts[a]), fmt, k + 1,
                         [acc EXCEPT ![fmt[k]] =
                            ToInt(SubSeq(s, pos, pos + Len(alts[a]) - 1))])
           good == {a \in DOMAIN alts : AltAt(s, pos, alts[a]) /\ after(a).ok}
       IN IF good = {} THEN NoMatch ELSE after(Min(good))

IsLeapYear(y) == y % 4 = 0 /\ (y % 100 # 0 \/ y % 400 = 0)

DaysInMonth(y, m) ==
  IF m = 2 THEN (IF IsLeapYear(y) THEN 29 ELSE 28)
  ELSE IF m \in {4, 6, 9, 11} THEN 30 ELSE 31

\* datetime.strptime(s, fmt): the date, or NoMatch for ValueError (the text
\* does not match, unconverted data remains, or the date does not exist:
\* the year is below datetime.MINYEAR = 1 or the month has no such day)
strptime(s, fmt) ==
  LET m == FormatMatch(s, 1, fmt, 1, [ok |-> TRUE, end |-> 0,
                                       Y |-> 0, m |-> 0, d |-> 0])
  IN IF /\ m.ok
        /\ m.end = Len(s)
        /\ m.Y >= 1
        /\ m.d <= DaysInMonth(m.Y, m.m)
     THEN m ELSE NoMatch

\* dt.strftime("%Y%m%d"): %m and %d are two digits; %Y is the year in four
\* digits where the C library pads it and in as many digits as it has
\* where it does not (glibc)
strftime(dt, pads_year) ==
  (IF pads_year THEN ZeroPad(dt.Y, 4) ELSE IntToStr(dt.Y))
    \o ZeroPad(dt.m, 2) \o ZeroPad(dt.d, 2)

MinDateDigits == 6

MaxDateDigits == 8

\* re.sub(r'[^0-9]', '', s)
OnlyDigits(s) == SelectSeq(s, LAMBDA c : c \in Digits)

\* date_formatted of generate_proposed_filename
FormatDate(raw_date, pads_year) ==
  IF ~Truthy(raw_date) THEN <<>>
  ELSE LET parsed == {f \in DOMAIN DATE_FORMATS :
                        strptime(raw_date, DATE_FORMATS[f]).ok}
           nums   == OnlyDigits(raw_date)
       IN IF parsed # {}
          THEN strftime(strptime(raw_date, DATE_FORMATS[Min(parsed)]), pads_year)
          ELSE IF Len(nums) >= MinDateDigits THEN Take(nums, MaxDateDigits)
          ELSE <<>>

\* the join without the filter of empty parts
build_name_unfiltered(parts) == Join(parts, <<"_">>) \o PdfExt

\* "_".join(filter(None, parts)) + ext
build_name(parts) ==
  Join(SelectSeq(parts, LAMBDA p : p # <<>>), <<"_">>) \o PdfExt

\* the synthesizer with the name of the OriginalFilename scheme built by
\* build_name like the names of the other schemes
generate_proposed_filename_original_joined(original_filename, data, scheme, pads_year) ==
  LET inv0      == Get(data, "invoice_number", None)
      vendor0   == Get(data, "vendor", None)
      inv       == sanitize_filename(inv0)
      vendor    == sanitize_filename(IF Truthy(vendor0) THEN vendor0
                                     ELSE UnknownVendor)
      orig_base == splitext(original_filename)[1]
      date_formatted == FormatDate(Get(data, "date", <<>>), pads_year)
  IN CASE scheme = INVOICE_NUMBER ->
            IF inv # <<>> /\ inv # Unknown
            THEN build_name(<< <<"I", "N", "V">>, inv, date_formatted>>)
            ELSE build_name(<< <<"I", "N", "V", "_">> \o Unknown,
                               sanitize_filename(orig_base)>>)
       [] scheme = VENDOR_NAME ->
            build_name(<<vendor, <<"I", "N", "V">>, inv, date_formatted>>)
       [] scheme = ORIGINAL_FILENAME ->
            build_name(<<date_formatted, sanitize_filename(orig_base)>>)
       [] OTHER -> original_filename

generate_proposed_filename(original_filename, data, scheme, pads_year) ==
  LET inv0      == Get(data, "invoice_number", None)
      vendor0   == Get(data, "vendor", None)
      inv       == sanitize_filename(inv0)
      vendor    == sanitize_filename(IF Truthy(vendor0) THEN vendor0
                                     ELSE UnknownVendor)
      orig_base == splitext(original_filename)[1]
      date_formatted == FormatDate(Get(data, "date", <<>>), pads_year)
  IN CASE scheme = INVOICE_NUMBER ->
            IF inv # <<>> /\ inv # Unknown
            THEN build_name(<< <<"I", "N", "V">>, inv, date_formatted>>)
            ELSE build_name(<< <<"I", "N", "V", "_">> \o Unknown,
                               sanitize_filename(orig_base)>>)
       [] scheme = VENDOR_NAME ->
            build_name(<<vendor, <<"I", "N", "V">>, inv, date_formatted>>)
       [] scheme = ORIGINAL_FILENAME ->
            IF date_formatted # <<>>
            THEN date_formatted \o <<"_">> \o sanitize_filename(orig_base)
                   \o PdfExt
            ELSE sanitize_filename(orig_base) \o PdfExt
       [] OTHER -> original_filename

(***************************************************************************)
(* Path Resolver                                                           *)
(***************************************************************************)
UnknownDate == <<"U", "n", "k", "n", "o", "w", "n", "_", "D", "a", "t", "e">>

\* os.path.join(a, *p) on a POSIX system
RECURSIVE PathJoin(_, _)
PathJoin(a, p) ==
  IF p = <<>> THEN a
  ELSE LET b == p[1]
           path == IF b # <<>> /\ b[1] = "/" THEN b
                   ELSE IF a = <<>> \/ a[Len(a)] = "/" THEN a \o b
                   ELSE a \o <<"/">> \o b
       IN PathJoin(path, Tail(p))

\* the search for four digits of any century
YearToken_any_century(date_str) ==
  LET starts == {i \in 1..(Len(date_str) - 3) :
                   \A j \in i..(i + 3) : date_str[j] \in Digits}
  IN IF starts = {} THEN None
     ELSE SubSeq(date_str, Min(starts), Min(starts) + 3)

\* re.search(r'20\d{2}', date_str).group(0), None when there is no match
YearToken(date_str) ==
  LET starts == {i \in 1..(Len(date_str) - 3) :
                   /\ date_str[i] = "2" /\ date_str[i + 1] = "0"
                   /\ date_str[i + 2] \in Digits /\ date_str[i + 3] \in Digits}
  IN IF starts = {} THEN None
     ELSE SubSeq(date_str, Min(starts), Min(starts) + 3)

\* year_month of calculate_target_path; re.search raises TypeError on None,
\* which the bare except swallows
TimeBucket(date_str) ==
  IF date_str = None \/ YearToken(date_str) = None THEN UnknownDate
  ELSE YearToken(date_str)

calculate_target_path(base_output_folder, filename, data, organize_by_month) ==
  LET vendor0 == Get(data, "vendor", None)
      vendor  == sanitize_filename(IF Truthy(vendor0) THEN vendor0
                                   ELSE UnknownVendor)
      subfolders == (IF organize_by_month
                     THEN <<TimeBucket(Get(data, "date", <<>>))>>
                     ELSE <<>>) \o <<vendor>>
  IN PathJoin(base_output_folder, subfolders \o <<filename>>)

\* os.path.exists(path) against the files of fsys
Exists(fsys, path) == path \in fsys

\* f"{base}_{counter}{ext}"
SuffixedPath(base, ext, counter) == base \o <<"_">> \o IntToStr(counter) \o ext

\* the while loop of get_safe_unique_path, entered with the given counter
RECURSIVE ProbeFrom(_, _, _, _)
ProbeFrom(fsys, base, ext, counter) ==
  IF ~Exists(fsys, SuffixedPath(base, ext, counter))
  THEN SuffixedPath(base, ext, counter)
  ELSE ProbeFrom(fsys, base, ext, counter + 1)

\* the resolver that does not look at the file system
get_safe_unique_path_unchecked(fsys, target_path) == target_path

\* the resolver that tries the suffix _1 without looking whether it is free
get_safe_unique_path_no_recheck(fsys, target_path) ==
  IF ~Exists(fsys, target_path) THEN target_path
  ELSE SuffixedPath(splitext(target_path)[1], splitext(target_path)[2], 1)

\* the resolver that suffixes a path that is free
get_safe_unique_path_always_suffixed(fsys, target_path) ==
  ProbeFrom(fsys, splitext(target_path)[1], splitext(target_path)[2], 1)

get_safe_unique_path(fsys, target_path) ==
  IF ~Exists(fsys, target_path) THEN target_path
  ELSE ProbeFrom(fsys, splitext(target_path)[1], splitext(target_path)[2], 1)

(***************************************************************************)
(* Inputs of the public functions                                          *)
(***************************************************************************)
\* most lines of a page text
MaxLines == 3

\* lines a first page is made of
LinePool ==
  { <<"A", "c", "m", "e", " ", "C", "o", "r", "p">>,
    <<"I", "n", "v", "o", "i", "c", "e", " ", "N", "o", ":", " ", "I", "N",
      "V", "-", "9", "9", "9">>,
    <<"I", "n", "v", "o", "i", "c", "e", " ", "N", "u", "m", "b", "e", "r">>,
    <<"D", "a", "t", "e", ":", " ", "0", "3", "/", "0", "1", "/", "2", "0",
      "1", "2">>,
    <<"2", "0", "2", "3", "-", "1", "0", "-", "2", "5">>,
    <<"T", "o", "t", "a", "l", " ", "1", ".", "0", "0", " ", "2", ".", "5",
      "0">>,
    <<"S", "u", "b", "t", "o", "t", "a", "l", " ", "3", ".", "0", "0">>,
    <<"#", "1", "2", "3", "4", "5">> }

\* str(e) of the exceptions pdfplumber raises
ErrorMessages ==
  { <<"I", "n", "c", "o", "r", "r", "e", "c", "t", " ", "P", "a", "s", "s",
      "w", "o", "r", "d">>,
    <<"F", "i", "l", "e", " ", "i", "s", " ", "e", "n", "c", "r", "y", "p",
      "t", "e", "d">>,
    <<>>,
    <<"N", "o", " ", "/", "R", "o", "o", "t", " ", "o", "b", "j", "e", "c",
      "t", "!", " ", "-", " ", "I", "s", " ", "t", "h", "i", "s", " ", "r",
      "e", "a", "l", "l", "y", " ", "a", " ", "P", "D", "F", "?">> }

\* original filenames
OriginalNames ==
  { <<"s", "c", "a", "n", "0", "0", "1", ".", "p", "d", "f">>,
    <<"m", "y", " ", "s", "c", "a", "n", ".", "P", "D", "F">>,
    <<"a", ":", "b", "/", "c", "?", ".", "p", "d", "f">>,
    <<" ", " ", ".", "p", "d", "f">> }

\* values of the field invoice_number
InvoiceValues ==
  { <<>>,
    <<"I", "N", "V", "-", "9", "9", "9">>,
    <<"u", "n", "k", "n", "o", "w", "n">>,
    <<"a", "/", "b">>,
    <<" ", " ">> }

\* values of the field date
DateValues ==
  { <<>>,
    <<"2", "0", "2", "3", "-", "1", "0", "-", "2", "5">>,
    <<"0", "3", "/", "0", "1", "/", "2", "0", "1", "2">>,
    <<"2", "5", "/", "1", "0", "/", "2", "0", "2", "3">>,
    <<"2", "0", "2", "3", "/", "1", "0", "/", "2", "5">>,
    <<"0", "3", "-", "0", "1", "-", "2", "0", "1", "2">>,
    <<"0", "9", "9", "9", "-", "0", "1", "-", "0", "1">>,
    <<"2", "0", "2", "3", "-", "0", "2", "-", "3", "0">>,
    <<"2", "0", "2", "3", "-", "1", "-", " ", "5">>,
    <<"M", "a", "r", "c", "h", " ", "5", ",", " ", "2", "0", "2", "3">>,
    <<"1", "2", "3", "4", "5">>,
    <<"2", "0", "2", "3", "1", "0", "2", "5">>,
    <<"1", ".", "2", ".", "2", "0", "2", "3", " ", "1", "0", ":", "3", "0">> }

\* values of the field vendor
VendorValues ==
  { <<"A", "c", "m", "e", " ", "C", "o", "r", "p">>,
    <<"A", ":", "B">>,
    <<" ", " ">> }

\* arguments of sanitize_filename
SanitizeNames ==
  { <<>>,
    <<"A", "c", "m", "e", " ", "C", "o", "r", "p">>,
    <<" ", "a", "<", "b", ">", "c", " ">>,
    <<"\t", "x", "|", "y", "\n">>,
    <<" ", " ">>,
    <<"\\", "/", ":", "*", "?", "\"", "<", ">", "|">>,
    <<"u", "n", "k", "n", "o", "w", "n">> }

\* the texts pages[0].extract_text() returns: up to MaxLines lines of LinePool
PageTexts ==
  {Join(ls, <<"\n">>) : ls \in UNION {[1..n -> LinePool] : n \in 1..MaxLines}}

\* page texts about the total: a "total" line without an amount before two
\* with one, lines that end in a carriage return, and a line with "sub"
AmountTexts ==
  { <<"T", "o", "t", "a", "l", " ", "d", "u", "e", " ", "l", "a", "t", "e",
      "r", "\n", "T", "O", "T", "A", "L", " ", "7", ".", "0", "0", " ", "E",
      "U", "R", "\n", "T", "o", "t", "a", "l", " ", "8", ".", "0", "0">>,
    <<"B", "a", "l", "a", "n", "c", "e", " ", "1", ".", "0", "0", "\r", "G",
      "r", "a", "n", "d", " ", "T", "o", "t", "a", "l", ":", " ", "1", ",",
      "2", "3", "4", ".", "5", "6", "\r", "T", "o", "t", "a", "l", " ", "2",
      ".", "0", "0">>,
    <<"T", "o", "t", "a", "l", " ", "5", ".", "0", "0", " ", "s", "u", "b",
      "j", "e", "c", "t", " ", "t", "o", " ", "t", "a", "x", "\n", "N", "o",
      "t", "h", "i", "n", "g", " ", "e", "l", "s", "e", " ", "h", "e", "r",
      "e">> }

\* page texts whose labelled match is the word "no" or "number"
LabelTexts ==
  { <<"I", "n", "v", "o", "i", "c", "e", " ", "N", "o", ":", " ", "n", "o",
      "\n", "#", "1", "2", "3", "4", "5", " ", "r", "e", "f", "e", "r", "e",
      "n", "c", "e">>,
    <<"I", "n", "v", "o", "i", "c", "e", " ", "#", " ", "N", "u", "m", "b",
      "e", "r", " ", "5", " ", "#", "1", "2", "3", "4", "5", "6">> }

\* a name that is one character longer than MAX_FILENAME_LENGTH and has a
\* blank as its character number MAX_FILENAME_LENGTH
LongName == Rep("a", MAX_FILENAME_LENGTH - 1) \o <<" ", "b">>

\* what pdfplumber can do with a path
ReaderOutcomes ==
  {[raises |-> TRUE, msg |-> m, npages |-> 0, text |-> None] :
      m \in ErrorMessages \cup {Rep("x", MaxErrorLength + 10)}}
  \cup {[raises |-> FALSE, msg |-> <<>>, npages |-> 0, text |-> None]}
  \cup {[raises |-> FALSE, msg |-> <<>>, npages |-> 1, text |-> t] :
          t \in PageTexts \cup AmountTexts \cup LabelTexts
                 \cup {None, <<>>, Rep(" ", MinTextLength + 5)}}

\* the field maps handed to the Name Synthesizer and the Path Resolver
FieldMaps ==
  {EmptyDict}
  \cup [invoice_number : InvoiceValues \cup {None},
        date           : DateValues \cup {None},
        total_amount   : {None},
        vendor         : VendorValues \cup {None}]

\* str(e) of the errors makedirs and copy2 raise
WorkerErrorMessages ==
  { <<"[", "E", "r", "r", "n", "o", " ", "1", "3", "]", " ", "P", "e", "r",
      "m", "i", "s", "s", "i", "o", "n", " ", "d", "e", "n", "i", "e", "d">> }

NotApplicable == <<"N", "/", "A">>

PreviewSuffix == <<" ", "(", "p", "r", "e", "v", "i", "e", "w", ")">>

\* output_dir of the run
OutputDir == <<"/", "O", "u", "t">>

PreviewReport ==
  <<"p", "r", "e", "v", "i", "e", "w", "_", "r", "u", "n", ".", "c", "s",
    "v">>

\* the report of a real run, for one value of the timestamp
ResultsReport ==
  <<"e", "x", "t", "r", "a", "c", "t", "i", "o", "n", "_", "r", "e", "s",
    "u", "l", "t", "s", "_", "2", "0", "2", "4", "0", "1", "0", "1", "_",
    "1", "2", "0", "0", "0", "0", ".", "c", "s", "v">>

ErrorsLog == <<"e", "r", "r", "o", "r", "s", ".", "l", "o", "g">>

ScannedText == <<"T", "o", "t", "a", "l", " ", "5", ".", "0", "0">>

FullText ==
  <<"A", "c", "m", "e", " ", "C", "o", "r", "p", "\n", "I", "n", "v", "o",
    "i", "c", "e", " ", "N", "o", ":", " ", "I", "N", "V", "-", "9", "9",
    "9", "\n", "D", "a", "t", "e", ":", " ", "0", "3", "/", "0", "1", "/",
    "2", "0", "1", "2", "\n", "T", "o", "t", "a", "l", " ", "1", ".", "0",
    "0", " ", "2", ".", "5", "0">>

PartialText ==
  <<"I", "n", "v", "o", "i", "c", "e", " ", "N", "u", "m", "b", "e", "r",
    "\n", "D", "a", "t", "e", ":", " ", "2", "0", "2", "3", "-", "1", "0",
    "-", "2", "5", "\n", "S", "u", "b", "t", "o", "t", "a", "l", " ", "3",
    ".", "0", "0">>

PlainText ==
  <<"T", "h", "a", "n", "k", " ", "y", "o", "u", " ", "f", "o", "r", " ",
    "y", "o", "u", "r", " ", "b", "u", "s", "i", "n", "e", "s", "s">>

\* the names os.listdir returns, in its order
ListedNames ==
  << <<"a", ".", "p", "d", "f">>,
     <<"b", ".", "P", "D", "F">>,
     <<"c", " ", "d", ".", "p", "d", "f">>,
     <<"e", ".", "p", "d", "f">> >>

\* the paths of a file system snapshot
SnapshotPaths ==
  {PathJoin(OutputDir, <<n>>) : n \in {<<"f", ".", "p", "d", "f">>,
                                        <<"f", "_", "1", ".", "p", "d", "f">>,
                                        <<"f", "_", "2", ".", "p", "d", "f">>,
                                        <<"f">>}}

\* most files of the input folder
MaxFiles == 2

\* the documents of the input folder
WorkerPdfs ==
  {[raises |-> TRUE, msg |-> m, npages |-> 0, text |-> None] :
      m \in {<<"b", "a", "d", " ", "P", "a", "s", "s", "w", "o", "r", "d">>}}
  \cup {[raises |-> FALSE, msg |-> <<>>, npages |-> 1, text |-> t] :
          t \in {ScannedText, FullText, PartialText, PlainText}}

\* the input folders: file number i is named ListedNames[i]
InputFolders ==
  UNION {[1..n -> WorkerPdfs] : n \in 0..MaxFiles}

Platforms == {"pads_year", "plain_year"}

PadsYear == platform = "pads_year"

Configs == [scheme : NamingScheme, by_month : BOOLEAN, is_dry : BOOLEAN]

NoCall == [fn |-> "none"]

\* res outside the loop body
NoResult == <<>>

(***************************************************************************)
(* Calls of the public functions of parser.py, as the tests make them      *)
(***************************************************************************)
WorkerIdle ==
  /\ pc = "idle"
  /\ cfg = [scheme |-> INVOICE_NUMBER, by_month |-> FALSE, is_dry |-> TRUE]
  /\ files = <<>>
  /\ idx = 0
  /\ res = NoResult
  /\ results = <<>>
  /\ fs = {}
  /\ queue = <<>>
  /\ ops = <<>>

InitCalls ==
  /\ platform \in Platforms
  /\ call = NoCall
  /\ WorkerIdle

WorkerVars == <<pc, cfg, files, idx, res, results, fs, queue, ops>>

\* a behaviour makes one call
CallPending == pc = "idle" /\ call = NoCall

CallExtractText ==
  /\ CallPending
  /\ \E pdf \in ReaderOutcomes :
       /\ call' = [fn |-> "extract_text_from_pdf", pdf |-> pdf,
                   ret |-> extract_text_from_pdf(pdf)]
       /\ UNCHANGED <<platform, WorkerVars>>

CallProcessSinglePdf ==
  /\ CallPending
  /\ \E pdf \in ReaderOutcomes, filename \in {ListedNames[1], ListedNames[2]} :
       /\ call' = [fn |-> "process_single_pdf", pdf |-> pdf,
                   filename |-> filename,
                   ret |-> process_single_pdf(pdf, filename)]
       /\ UNCHANGED <<platform, WorkerVars>>

CallSanitizeFilename ==
  /\ CallPending
  /\ \E name \in SanitizeNames \cup {None, LongName} :
       /\ call' = [fn |-> "sanitize_filename", name |-> name,
                   ret |-> sanitize_filename(name)]
       /\ UNCHANGED <<platform, WorkerVars>>

CallGenerateProposedFilename ==
  /\ CallPending
  /\ \E original_filename \in OriginalNames \cup {LongName \o PdfExt},
        data \in FieldMaps, scheme \in NamingScheme :
       /\ call' = [fn |-> "generate_proposed_filename",
                   original_filename |-> original_filename, data |-> data,
                   scheme |-> scheme,
                   ret |-> generate_proposed_filename(original_filename, data,
                                                      scheme, PadsYear)]
       /\ UNCHANGED <<platform, WorkerVars>>

CallCalculateTargetPath ==
  /\ CallPending
  /\ \E filename \in OriginalNames, data \in FieldMaps,
        organize_by_month \in BOOLEAN :
       /\ call' = [fn |-> "calculate_target_path",
                   base_output_folder |-> OutputDir, filename |-> filename,
                   data |-> data, organize_by_month |-> organize_by_month,
                   ret |-> calculate_target_path(OutputDir, filename, data,
                                                 organize_by_month)]
       /\ UNCHANGED <<platform, WorkerVars>>

CallGetSafeUniquePath ==
  /\ CallPending
  /\ \E fsys \in SUBSET SnapshotPaths, target_path \in SnapshotPaths :
       /\ call' = [fn |-> "get_safe_unique_path", fsys |-> fsys,
                   target_path |-> target_path,
                   ret |-> get_safe_unique_path(fsys, target_path)]
       /\ UNCHANGED <<platform, WorkerVars>>

NextCalls ==
  \/ CallExtractText
  \/ CallProcessSinglePdf
  \/ CallSanitizeFilename
  \/ CallGenerateProposedFilename
  \/ CallCalculateTargetPath
  \/ CallGetSafeUniquePath

SpecCalls == InitCalls /\ [][NextCalls]_vars

(***************************************************************************)
(* get_safe_unique_path one os.path.exists at a time.  call holds the      *)
(* frame of the call: its argument, the file system it runs against, its   *)
(* counter, the paths it has tested and whether one was tested twice.      *)
(***************************************************************************)
NoReturn == <<"no return yet">>

InitProbe ==
  /\ platform \in Platforms
  /\ \E fsys \in SUBSET SnapshotPaths, target_path \in SnapshotPaths :
       call = [fn |-> "get_safe_unique_path", fsys |-> fsys,
               target_path |-> target_path, counter |-> 0, checked |-> {},
               rechecked |-> FALSE, ret |-> NoReturn]
  /\ pc = "target"
  /\ cfg = [scheme |-> INVOICE_NUMBER, by_month |-> FALSE, is_dry |-> TRUE]
  /\ files = <<>>
  /\ idx = 0
  /\ res = NoResult
  /\ results = <<>>
  /\ fs = {}
  /\ queue = <<>>
  /\ ops = <<>>

\* os.path.exists(path), remembered in the frame
Tested(path) ==
  [call EXCEPT !.checked = call.checked \cup {path},
               !.rechecked = call.rechecked \/ path \in call.checked]

\* if not os.path.exists(target_path): return target_path
ProbeTargetFree ==
  /\ pc = "target"
  /\ ~Exists(call.fsys, call.target_path)
  /\ call' = [Tested(call.target_path) EXCEPT !.ret = call.target_path]
  /\ pc' = "returned"
  /\ UNCHANGED <<platform, cfg, files, idx, res, results, fs, queue, ops>>

\* the target exists: counter = 1 and the loop is entered
ProbeTargetTaken ==
  /\ pc = "target"
  /\ Exists(call.fsys, call.target_path)
  /\ call' = [Tested(call.target_path) EXCEPT !.counter = 1]
  /\ pc' = "while"
  /\ UNCHANGED <<platform, cfg, files, idx, res, results, fs, queue, ops>>

\* new_path of the loop body
NewPath ==
  LET parts == splitext(call.target_path)
  IN SuffixedPath(parts[1], parts[2], call.counter)

\* counter += 1
NextCounter_stuck(counter) == counter

NextCounter(counter) == counter + 1

\* if not os.path.exists(new_path): return new_path
ProbeCandidateFree ==
  /\ pc = "while"
  /\ ~Exists(call.fsys, NewPath)
  /\ call' = [Tested(NewPath) EXCEPT !.ret = NewPath]
  /\ pc' = "returned"
  /\ UNCHANGED <<platform, cfg, files, idx, res, results, fs, queue, ops>>

\* new_path exists: the next counter is tried
ProbeCandidateTaken ==
  /\ pc = "while"
  /\ Exists(call.fsys, NewPath)
  /\ call' = [Tested(NewPath) EXCEPT !.counter = NextCounter(call.counter)]
  /\ UNCHANGED <<platform, pc, cfg, files, idx, res, results, fs, queue, ops>>

NextProbe ==
  \/ ProbeTargetFree
  \/ ProbeTargetTaken
  \/ ProbeCandidateFree
  \/ ProbeCandidateTaken

\* the interpreter keeps running the call: a step that can be taken is taken
SpecProbe == InitProbe /\ [][NextProbe]_vars /\ WF_vars(NextProbe)

(***************************************************************************)
(* The batch worker: InvoiceApp.worker of src/app.py                       *)
(***************************************************************************)
\* what the output folder holds when the batch starts: nothing, or the file
\* an earlier run under the invoice number scheme made of a document with
\* the text FullText
EarlierOutputs ==
  {{}, {PathJoin(OutputDir,
                 << <<"A", "c", "m", "e", " ", "C", "o", "r", "p">>,
                    <<"I", "N", "V", "_", "I", "N", "V", "-", "9", "9", "9",
                      "_", "0", "3", "0", "1", "2", "0", "1", "2", ".", "p",
                      "d", "f">> >>)}}

Init ==
  /\ platform \in Platforms
  /\ call = NoCall
  /\ pc = "start"
  /\ cfg \in Configs
  /\ files \in InputFolders
  /\ idx = 0
  /\ res = NoResult
  /\ results = <<>>
  /\ fs \in EarlierOutputs
  /\ queue = <<>>
  /\ ops = <<>>

\* the file of this iteration: its name and what reading it gives
CurrentName == ListedNames[idx + 1]

CurrentPdf == files[idx + 1]

\* process_single_pdf(fpath, filename) for every document of the pool
ParsedDocs ==
  [pdf \in WorkerPdfs |->
     [n \in DOMAIN ListedNames |-> process_single_pdf(pdf, ListedNames[n])]]

\* generate_proposed_filename(filename, res.data, scheme) for every document
\* of the pool, every scheme and both C libraries
ProposedNames ==
  [pdf \in WorkerPdfs |->
     [n \in DOMAIN ListedNames |->
        [scheme \in NamingScheme |->
           [pads_year \in BOOLEAN |->
              generate_proposed_filename(ListedNames[n],
                                         ParsedDocs[pdf][n].data, scheme,
                                         pads_year)]]]]

\* steps 1 and 2 of the loop body: parse, then propose a name
ParsedResult ==
  [ParsedDocs[CurrentPdf][idx + 1] EXCEPT !.proposed_filename =
     ProposedNames[CurrentPdf][idx + 1][cfg.scheme][PadsYear]]

\* target_full of the loop body
TargetFull(r) ==
  calculate_target_path(OutputDir, r.proposed_filename, r.data, cfg.by_month)

\* a call made for the file of this iteration, and the path it is about:
\* the value returned, the folder made for, or the destination of the copy
Did(op, path) == [op |-> op, n |-> idx + 1, path |-> path]

\* a worker that carries the reason of the previous result over
FinishIteration_keeps_reason(r) ==
  /\ pc = "place"
  /\ results' = Append(results,
                       IF results = <<>> THEN r
                       ELSE [r EXCEPT !.reason = results[Len(results)].reason])
  /\ queue' = Append(queue, [type |-> "row", filename |-> r.filename,
                             status |-> r.status])
  /\ idx' = idx + 1
  /\ res' = NoResult
  /\ pc' = "loop"
  /\ UNCHANGED <<platform, call, cfg, files>>

\* the end of every iteration: self.results.append(res) and the row message
FinishIteration(r) ==
  /\ pc = "place"
  /\ results' = Append(results, r)
  /\ queue' = Append(queue, [type |-> "row", filename |-> r.filename,
                             status |-> r.status])
  /\ idx' = idx + 1
  /\ res' = NoResult
  /\ pc' = "loop"
  /\ UNCHANGED <<platform, call, cfg, files>>

\* the output folder exists, can be created, or the run is a dry run
WorkerStart ==
  /\ pc = "start"
  /\ pc' = "loop"
  /\ UNCHANGED <<platform, call, cfg, files, idx, res, results, fs, queue,
                 ops>>

\* os.makedirs(output_dir) raises: the worker reports the error and returns
WorkerCannotCreateOutput ==
  /\ pc = "start"
  /\ ~cfg.is_dry
  /\ \E e \in WorkerErrorMessages :
       queue' = Append(queue, [type |-> "error",
                               text |-> <<"Cannot create output folder: ">> \o e])
  /\ pc' = "returned"
  /\ UNCHANGED <<platform, call, cfg, files, idx, res, results, fs, ops>>

\* the head of the loop body: the progress message and steps 1 and 2
ParseFile ==
  /\ pc = "loop"
  /\ idx < Len(files)
  /\ queue' = Append(queue, [type |-> "progress", n |-> idx + 1])
  /\ res' = ParsedResult
  /\ pc' = "place"
  /\ UNCHANGED <<platform, call, cfg, files, idx, results, fs, ops>>

\* a worker that computes the path of a skipped document as well
ProcessSkipped_path_computed ==
  /\ pc = "place"
  /\ res.status = SKIPPED
  /\ \E target_full \in {TargetFull(res)} :
       /\ FinishIteration([res EXCEPT !.target_path = target_full])
       /\ ops' = Append(ops, Did("calculate_target_path", target_full))
  /\ UNCHANGED fs

\* the document was skipped by the parser: no path is computed
ProcessSkipped ==
  /\ pc = "place"
  /\ res.status = SKIPPED
  /\ FinishIteration([res EXCEPT !.target_path = NotApplicable])
  /\ UNCHANGED <<fs, ops>>

ProcessPreview_resolved ==
  /\ pc = "place"
  /\ res.status # SKIPPED
  /\ cfg.is_dry
  /\ \E target_full \in {TargetFull(res)} :
       \E safe_path \in {get_safe_unique_path(fs, target_full)} :
         /\ FinishIteration([res EXCEPT
                               !.target_path = safe_path \o PreviewSuffix])
         /\ ops' = ops \o << Did("calculate_target_path", target_full),
                             Did("get_safe_unique_path", safe_path) >>
  /\ UNCHANGED fs

\* dry run: the path is shown, nothing is written
ProcessPreview ==
  /\ pc = "place"
  /\ res.status # SKIPPED
  /\ cfg.is_dry
  /\ \E target_full \in {TargetFull(res)} :
       /\ FinishIteration([res EXCEPT
                             !.target_path = target_full \o PreviewSuffix])
       /\ ops' = Append(ops, Did("calculate_target_path", target_full))
  /\ UNCHANGED fs

\* a worker that copies to the unresolved path
SafePath_unresolved(target_full) == target_full

\* the path of step 3: get_safe_unique_path(target_full)
SafePath(target_full) == get_safe_unique_path(fs, target_full)

\* the calls of a real run up to os.makedirs
CallsToMakedirs(target_full, safe_path) ==
  << Did("calculate_target_path", target_full),
     Did("get_safe_unique_path", safe_path),
     Did("makedirs", safe_path) >>

\* real run: the file is copied to the unique path
ProcessCopy ==
  /\ pc = "place"
  /\ res.status # SKIPPED
  /\ ~cfg.is_dry
  /\ \E target_full \in {TargetFull(res)} :
       \E safe_path \in {SafePath(target_full)} :
         /\ fs' = fs \cup {safe_path}
         /\ ops' = ops \o CallsToMakedirs(target_full, safe_path)
                       \o <<Did("copy2", safe_path)>>
         /\ FinishIteration([res EXCEPT !.target_path = safe_path])

\* a worker that lets the error of a copy end the batch
CopyFailed_aborts(reason) ==
  /\ pc = "place"
  /\ res.status # SKIPPED
  /\ ~cfg.is_dry
  /\ queue' = Append(queue, [type |-> "error", text |-> reason])
  /\ pc' = "returned"
  /\ UNCHANGED <<platform, call, cfg, files, idx, res, results, fs, ops>>

\* real run: os.makedirs or shutil.copy2 raises an error; copy2 may have
\* created the file before it failed.  An OSError and any other exception
\* differ in the reason they leave.
CopyFailed(reason) ==
  /\ pc = "place"
  /\ res.status # SKIPPED
  /\ ~cfg.is_dry
  /\ \E target_full \in {TargetFull(res)} :
       \E safe_path \in {SafePath(target_full)} :
         /\ \/ /\ ops' = ops \o CallsToMakedirs(target_full, safe_path)
               /\ fs' = fs
            \/ /\ ops' = ops \o CallsToMakedirs(target_full, safe_path)
                             \o <<Did("copy2", safe_path)>>
               /\ fs' \in {fs, fs \cup {safe_path}}
         /\ FinishIteration([res EXCEPT !.target_path = safe_path,
                                        !.status = SKIPPED,
                                        !.reason = reason])

ProcessCopyOSError ==
  \E e \in WorkerErrorMessages :
    CopyFailed(<<"Permission/Write Error: ">> \o e)

ProcessCopyException ==
  \E e \in WorkerErrorMessages :
    CopyFailed(<<"System Error: ">> \o Take(e, MaxErrorLength))

\* save_reports: each of the two files is written unless open() fails, and
\* errors.log only when some result is SKIPPED
ReportsWritten ==
  LET report == PathJoin(OutputDir, <<IF cfg.is_dry THEN PreviewReport
                                      ELSE ResultsReport>>)
      log    == PathJoin(OutputDir, <<ErrorsLog>>)
      logs   == IF \E i \in DOMAIN results : results[i].status = SKIPPED
                THEN {{}, {log}} ELSE {{}}
  IN {r \cup l : r \in {{}, {report}}, l \in logs}

\* after the last file: save_reports, then the completion message
WorkerFinish ==
  /\ pc = "loop"
  /\ idx = Len(files)
  /\ \E written \in ReportsWritten : fs' = fs \cup written
  /\ queue' = Append(queue, [type |-> "done", is_dry |-> cfg.is_dry])
  /\ pc' = "done"
  /\ UNCHANGED <<platform, call, cfg, files, idx, res, results, ops>>

Next ==
  \/ WorkerStart
  \/ WorkerCannotCreateOutput
  \/ ParseFile
  \/ ProcessSkipped
  \/ ProcessPreview
  \/ ProcessCopy
  \/ ProcessCopyOSError
  \/ ProcessCopyException
  \/ WorkerFinish

Spec == Init /\ [][Next]_vars

(***************************************************************************)
(* Step 3 of the loop body run by two writers on one output folder (two    *)
(* workers, or the worker and another program that does the same): each    *)
(* resolves its path, then copies.  pc and res hold one position and one   *)
(* pair of paths per writer; nothing makes the two calls one step.         *)
(***************************************************************************)
Writers == {1, 2}

\* a call of a writer, and whether the path it is about existed at the call
RaceDid(w, op, path) ==
  [op |-> op, n |-> w, path |-> path, existed |-> Exists(fs, path)]

InitRace ==
  /\ platform \in Platforms
  /\ call = NoCall
  /\ pc = [w \in Writers |-> "resolve"]
  /\ cfg = [scheme |-> INVOICE_NUMBER, by_month |-> FALSE, is_dry |-> FALSE]
  /\ files = <<>>
  /\ idx = 0
  /\ res \in [Writers -> [target_full : SnapshotPaths, safe_path : {None}]]
  /\ results = <<>>
  /\ fs \in SUBSET SnapshotPaths
  /\ queue = <<>>
  /\ ops = <<>>

\* safe_path = get_safe_unique_path(target_full)
RaceResolve(w) ==
  /\ pc[w] = "resolve"
  /\ LET safe_path == get_safe_unique_path(fs, res[w].target_full)
     IN /\ res' = [res EXCEPT ![w].safe_path = safe_path]
        /\ ops' = Append(ops, RaceDid(w, "get_safe_unique_path", safe_path))
  /\ pc' = [pc EXCEPT ![w] = "copy"]
  /\ UNCHANGED <<platform, call, cfg, files, idx, results, fs, queue>>

\* shutil.copy2(fpath, safe_path): creates the file or replaces it
RaceCopy(w) ==
  /\ pc[w] = "copy"
  /\ fs' = fs \cup {res[w].safe_path}
  /\ ops' = Append(ops, RaceDid(w, "copy2", res[w].safe_path))
  /\ pc' = [pc EXCEPT ![w] = "done"]
  /\ UNCHANGED <<platform, call, cfg, files, idx, res, results, queue>>

NextRace ==
  \/ \E w \in Writers : RaceResolve(w)
  \/ \E w \in Writers : RaceCopy(w)

SpecRace == InitRace /\ [][NextRace]_vars

(***************************************************************************)
(* Properties of the Document Reader and the Classifier                    *)
(***************************************************************************)
IsCall(fn) == call.fn = fn

\* the reader reports a failure for the document of the call
ReadFailed(pdf) == extract_text_from_pdf(pdf)[2] # None

RequiredFields == {"invoice_number", "date", "total_amount"}

\* the required fields whose value is absent or empty
MissingRequired(data) ==
  {k \in RequiredFields : data[k] = None \/ data[k] = <<>>}

\* C1: whenever the read of a document fails, process_single_pdf returns
\* status SKIPPED, the failure reason of the reader and an empty field map.
C1_SkippedOnReadFailure ==
  (IsCall("process_single_pdf") /\ ReadFailed(call.pdf)) =>
    /\ call.ret.status = SKIPPED
    /\ call.ret.reason = extract_text_from_pdf(call.pdf)[2]
    /\ DOMAIN call.ret.data = {}

C1_Witness ==
  /\ IsCall("process_single_pdf")
  /\ call.pdf.raises
  /\ call.ret.status = SKIPPED
  /\ call.ret.reason[1] = "Read Error: "

\* C2: for the field map of a readable document only invoice_number, date and
\* total_amount count as missing: none missing gives OK with "All fields
\* found", one or two missing give PARTIAL with a reason that lists exactly
\* the missing names, three missing give PARTIAL with "Low confidence
\* extraction", and the status is never SKIPPED.
C2_Classifier ==
  (IsCall("process_single_pdf") /\ ~ReadFailed(call.pdf)) =>
    LET missing == MissingRequired(call.ret.data)
        n       == Cardinality(missing)
        reason  == call.ret.reason
    IN /\ call.ret.status # SKIPPED
       /\ n = 0 => /\ call.ret.status = OK
                   /\ reason = <<"All fields found">>
       /\ n \in {1, 2} =>
            /\ call.ret.status = PARTIAL
            /\ reason[1] = "Missing: "
            /\ Len(reason) = 2 * n
            /\ {reason[i] : i \in 2..Len(reason)} \ {", "} = missing
       /\ n = 3 => /\ call.ret.status = PARTIAL
                   /\ reason = <<"Low confidence extraction">>

C2_Witness ==
  /\ IsCall("process_single_pdf")
  /\ ~ReadFailed(call.pdf)
  /\ call.ret.data["vendor"] = None
  /\ call.ret.status = PARTIAL
  /\ call.ret.reason = <<"Missing: ", "invoice_number", ", ", "total_amount">>

\* the result of the worker for file i is SKIPPED although its text was read
\* and some required field was found
SkippedAfterParsing(i) ==
  /\ results[i].status = SKIPPED
  /\ ~ReadFailed(files[i])
  /\ MissingRequired(results[i].data) # RequiredFields

\* C3: in every state of a batch run a result is SKIPPED only if the text
\* extraction of its document failed or its field confidence was too low (no
\* required field found), and it is SKIPPED whenever the extraction failed;
\* a failed copy of a parsed document does not set SKIPPED.
C3_SkippedOnlyFromParsing ==
  \A i \in DOMAIN results :
    /\ ReadFailed(files[i]) => results[i].status = SKIPPED
    /\ ~SkippedAfterParsing(i)

\* C4: for a document with a readable text layer the field map has exactly
\* the keys invoice_number, date, total_amount and vendor, and each value is
\* absent or a string (of characters of the page, or the "-" that the date
\* normalization writes).
C4_FourKeys ==
  (IsCall("process_single_pdf") /\ ~ReadFailed(call.pdf)) =>
    /\ DOMAIN call.ret.data = Range(FieldKeys)
    /\ \A k \in DOMAIN call.ret.data :
         \/ call.ret.data[k] = None
         \/ /\ DOMAIN call.ret.data[k] = 1..Len(call.ret.data[k])
            /\ Range(call.ret.data[k]) \subseteq Range(call.pdf.text) \cup {"-"}

C4_Witness ==
  /\ IsCall("process_single_pdf")
  /\ ~ReadFailed(call.pdf)
  /\ call.ret.data["vendor"] = None
  /\ call.ret.data["date"] # None

\* C5: extract_text_from_pdf returns, whatever opening and reading do, a pair
\* with exactly one component: a text of at least 20 characters after
\* trimming and no error, or no text and a non-empty failure reason.
C5_TextOrReason ==
  IsCall("extract_text_from_pdf") =>
    LET text  == call.ret[1]
        error == call.ret[2]
    IN \/ /\ text # None
          /\ error = None
          /\ Len(Strip(text)) >= 20
       \/ /\ text = None
          /\ error # None
          /\ error # <<>>

C5_Witness ==
  /\ IsCall("extract_text_from_pdf")
  /\ call.pdf.raises
  /\ call.pdf.msg = <<>>
  /\ call.ret = <<None, <<"Read Error: ">> >>

EncryptWord == <<"e", "n", "c", "r", "y", "p", "t">>

\* C6: when opening or reading raises an error whose message mentions
\* password or encryption the reason is "Encrypted/Password Protected"; every
\* other raised error gives "Read Error" followed by at most 50 characters of
\* the message.
C6_EncryptedOrReadError ==
  (IsCall("extract_text_from_pdf") /\ call.pdf.raises) =>
    LET msg    == call.pdf.msg
        reason == call.ret[2]
    IN IF \/ Contains(Lower(msg), PasswordWord)
          \/ Contains(Lower(msg), EncryptWord)
       THEN reason = <<"Encrypted/Password Protected">>
       ELSE /\ reason[1] = "Read Error: "
            /\ Len(Tail(reason)) <= 50
            /\ Tail(reason) = SubSeq(msg, 1, Len(Tail(reason)))

(***************************************************************************)
(* Properties of the Name Synthesizer                                      *)
(***************************************************************************)
IllegalInNames == {"\\", "/", ":", "*", "?", "\"", "<", ">", "|"}

EndsWith(s, suffix) ==
  /\ Len(s) >= Len(suffix)
  /\ SubSeq(s, Len(s) - Len(suffix) + 1, Len(s)) = suffix

\* C8: for every original filename, field map and scheme the proposed name
\* ends with ".pdf" and holds none of the characters \ / : * ? " < > |.
C8_LegalPdfName ==
  IsCall("generate_proposed_filename") =>
    /\ EndsWith(call.ret, <<".", "p", "d", "f">>)
    /\ Range(call.ret) \cap IllegalInNames = {}

C8_Witness ==
  /\ IsCall("generate_proposed_filename")
  /\ call.scheme = ORIGINAL_FILENAME
  /\ Range(call.original_filename) \cap IllegalInNames # {}
  /\ Get(call.data, "vendor", None) = <<"A", ":", "B">>
  /\ "_" \in Range(call.ret)

\* the number of whitespace characters at the start of s
LeadingBlanks(s) ==
  Min({i \in DOMAIN s : s[i] \notin Whitespace} \cup {Len(s) + 1}) - 1

\* the number of whitespace characters at the end of s
TrailingBlanks(s) ==
  Len(s) - Max({i \in DOMAIN s : s[i] \notin Whitespace} \cup {0})

\* s neither starts nor ends with whitespace
IsTrimmed(s) ==
  s # <<>> => (s[1] \notin Whitespace /\ s[Len(s)] \notin Whitespace)

\* r is the part of name that starts after its leading blanks, with every
\* illegal character replaced by "_" and every other character kept
ImageOfTrimmed(r, name) ==
  \A i \in DOMAIN r :
    LET c == name[LeadingBlanks(name) + i]
    IN r[i] = (IF c \in IllegalInNames THEN "_" ELSE c)

\* C9 as stated: "unknown" for an absent or empty value; for every other
\* value a trimmed string of at most 200 characters, with every illegal
\* character replaced by "_" and the other characters kept.
C9_TrimmedAtMost200 ==
  IsCall("sanitize_filename") =>
    IF call.name = None \/ call.name = <<>> THEN call.ret = Unknown
    ELSE /\ Len(call.ret) <= 200
         /\ IsTrimmed(call.ret)
         /\ ImageOfTrimmed(call.ret, call.name)

\* C9: "unknown" for an absent or empty value; for every other value the
\* first 200 characters of the trimmed value, with every illegal character
\* replaced by "_" and the other characters kept: the result does not start
\* with whitespace, and ends with whitespace only when it was cut.
C9_FirstCharactersOfTrimmed ==
  IsCall("sanitize_filename") =>
    IF call.name = None \/ call.name = <<>> THEN call.ret = Unknown
    ELSE LET kept == Len(call.name) - LeadingBlanks(call.name)
                       - TrailingBlanks(call.name)
         IN /\ Len(call.ret) = (IF kept > 200 THEN 200
                                ELSE IF kept < 0 THEN 0 ELSE kept)
            /\ ImageOfTrimmed(call.ret, call.name)
            /\ call.ret # <<>> => call.ret[1] \notin Whitespace
            /\ (call.ret # <<>> /\ call.ret[Len(call.ret)] \in Whitespace)
                 => kept > 200

C9_Witness ==
  /\ IsCall("sanitize_filename")
  /\ Len(call.name) > 200
  /\ Len(call.ret) = 200
  /\ call.ret[200] = " "

\* the date component as C10 describes it: the first of the four formats
\* that parses, rendered as eight digits, else the first eight digits when
\* there are six or more, else nothing
EightDigitDate(raw_date) ==
  IF raw_date = None \/ raw_date = <<>> THEN <<>>
  ELSE LET parsed == {f \in 1..4 : strptime(raw_date, DATE_FORMATS[f]).ok}
           dt     == strptime(raw_date, DATE_FORMATS[Min(parsed)])
           nums   == SelectSeq(raw_date, LAMBDA c : c \in Digits)
       IN IF parsed # {}
          THEN ZeroPad(dt.Y, 4) \o ZeroPad(dt.m, 2) \o ZeroPad(dt.d, 2)
          ELSE IF Len(nums) >= 6 THEN SubSeq(nums, 1, Min({8, Len(nums)}))
          ELSE <<>>

\* C10: the date component of the name is the first of YYYY-MM-DD,
\* MM/DD/YYYY, DD/MM/YYYY, YYYY/MM/DD that parses, rendered as 8-digit
\* YYYYMMDD; if none parses, the first 8 digits of the date when at least 6
\* digits remain; otherwise empty.  The component is read off the name of
\* the OriginalFilename scheme, <date>_<base>.pdf.
C10_DateComponent ==
  (IsCall("generate_proposed_filename") /\ call.scheme = ORIGINAL_FILENAME) =>
    LET date == EightDigitDate(Get(call.data, "date", <<>>))
        base == sanitize_filename(splitext(call.original_filename)[1])
    IN call.ret = (IF date = <<>> THEN <<>> ELSE date \o <<"_">>)
                    \o base \o PdfExt

\* a date as the Field Extractor stores it from a numeric date: three groups
\* of digits joined by "-", the first or the last of four digits
NumericDate(d) ==
  /\ Truthy(d)
  /\ Range(d) \subseteq Digits \cup {"-"}
  /\ LET g == Split(d, "-")
     IN /\ Len(g) = 3
        /\ \A k \in 1..3 : g[k] # <<>>
        /\ Len(g[1]) = 4 \/ Len(g[3]) = 4

\* the four-digit group of a numeric date
YearOf(d) ==
  LET g == Split(d, "-") IN IF Len(g[1]) = 4 THEN g[1] ELSE g[3]

\* the name of the run's scheme carries a date component for this result
EmitsDate(r) ==
  \/ cfg.scheme # INVOICE_NUMBER
  \/ /\ Truthy(r.data.invoice_number)
     /\ sanitize_filename(r.data.invoice_number) \notin {<<>>, Unknown}

\* the eight characters where the name of the run's scheme holds its date
DateComponent(name) ==
  IF cfg.scheme = ORIGINAL_FILENAME THEN Take(name, 8)
  ELSE SubSeq(name, Len(name) - 11, Len(name) - 4)

\* C11: for every file of the batch whose extracted date is numeric, the
\* date component of the proposed name is eight digits that start with the
\* year of the date (20120301 for the stored date 03-01-2012), never the
\* digits in their source order.
C11_YearFirstDate ==
  \A i \in DOMAIN results :
    LET r == results[i]
    IN ("date" \in DOMAIN r.data /\ NumericDate(r.data.date) /\ EmitsDate(r))
         => /\ Len(r.proposed_filename) >= 12
            /\ Range(DateComponent(r.proposed_filename)) \subseteq Digits
            /\ Take(DateComponent(r.proposed_filename), 4) = YearOf(r.data.date)

\* "_" and the part, nothing for an empty part
Sep(part) == IF part = <<>> THEN <<>> ELSE <<"_">> \o part

InvPrefix == <<"I", "N", "V">>

\* the date component of the name for the field map of the call
CallDate == FormatDate(Get(call.data, "date", <<>>), PadsYear)

\* the sanitized invoice number of the call
CallInvoice == sanitize_filename(Get(call.data, "invoice_number", None))

\* the sanitized base name of the original filename of the call
CallBase == sanitize_filename(splitext(call.original_filename)[1])

Underscored(s) == [i \in DOMAIN s |-> IF s[i] = " " THEN "_" ELSE s[i]]

\* C14: under the VendorName scheme the name starts with the vendor name in
\* which the blanks are replaced by underscores: "Acme_Corp" for the vendor
\* "Acme Corp".  Stated for the vendors that are trimmed and hold no illegal
\* character, which sanitization changes in no other way.
C14_VendorUnderscored ==
  (IsCall("generate_proposed_filename") /\ call.scheme = VENDOR_NAME) =>
    LET vendor0 == Get(call.data, "vendor", None)
    IN (/\ Truthy(vendor0)
        /\ IsTrimmed(vendor0)
        /\ Range(vendor0) \cap IllegalInNames = {})
         => Take(call.ret, Len(vendor0)) = Underscored(vendor0)

\* the field map of the call without its invoice number and its vendor
WithoutInvoiceAndVendor(data) ==
  [k \in DOMAIN data |->
     IF k \in {"invoice_number", "vendor"} THEN None ELSE data[k]]

\* C15: under the OriginalFilename scheme the name is <date>_<sanitized
\* original base name>.pdf when there is a date component and <sanitized
\* original base name>.pdf when there is none, and it is the name of the
\* same call made without the invoice number and the vendor.
C15_OriginalFilenameName ==
  (IsCall("generate_proposed_filename") /\ call.scheme = ORIGINAL_FILENAME) =>
    /\ call.ret = (IF CallDate # <<>> THEN CallDate \o <<"_">> ELSE <<>>)
                    \o CallBase \o PdfExt
    /\ call.ret = generate_proposed_filename(call.original_filename,
                      WithoutInvoiceAndVendor(call.data), call.scheme,
                      PadsYear)

C15_Witness ==
  /\ IsCall("generate_proposed_filename")
  /\ call.scheme = ORIGINAL_FILENAME
  /\ Get(call.data, "invoice_number", None)
       = <<"I", "N", "V", "-", "9", "9", "9">>
  /\ Get(call.data, "vendor", None)
       = <<"A", "c", "m", "e", " ", "C", "o", "r", "p">>
  /\ call.ret = <<"2", "0", "2", "3", "1", "0", "2", "5", "_", "s", "c", "a",
                  "n", "0", "0", "1", ".", "p", "d", "f">>

StartsWith(s, prefix) == Len(s) >= Len(prefix) /\ Take(s, Len(prefix)) = prefix

\* the vendor segment C16 names: the sanitized vendor, "Unknown_Vendor" for
\* an absent vendor
VendorSegment(data) ==
  IF Truthy(Get(data, "vendor", None))
  THEN sanitize_filename(Get(data, "vendor", None))
  ELSE <<"U", "n", "k", "n", "o", "w", "n", "_", "V", "e", "n", "d", "o", "r">>

\* C16: the path is <base>/[<bucket>/]<vendor>/<filename>: it ends with the
\* vendor segment followed by the filename; with the organize flag unset it
\* is exactly <base>/<vendor>/<filename>, and with the flag set exactly one
\* non-empty segment stands between the base and the vendor segment.
C16_PathShape ==
  IsCall("calculate_target_path") =>
    LET head == call.base_output_folder \o <<"/">>
        tail == <<"/">> \o VendorSegment(call.data) \o <<"/">> \o call.filename
    IN IF ~call.organize_by_month
       THEN call.ret = call.base_output_folder \o tail
       ELSE /\ StartsWith(call.ret, head)
            /\ EndsWith(call.ret, tail)
            /\ Len(call.ret) > Len(head) + Len(tail)
            /\ "/" \notin Range(SubSeq(call.ret, Len(head) + 1,
                                       Len(call.ret) - Len(tail)))

\* the positions of date_str where a 4-digit token beginning with "20" starts
YearTokenStarts(date_str) ==
  {i \in 1..(Len(date_str) - 3) :
     SubSeq(date_str, i, i + 1) = <<"2", "0">>
       /\ {date_str[i + 2], date_str[i + 3]} \subseteq Digits}

YearMonthOf(d) ==
  IF Len(d) = 8 THEN SubSeq(d, 1, 4) \o <<"-">> \o SubSeq(d, 5, 6)
  ELSE SubSeq(d, 1, 7)

\* d is written YYYY-MM-DD or YYYYMMDD
HasYearAndMonth(d) ==
  /\ d # None
  /\ \/ Len(d) = 8 /\ Range(d) \subseteq Digits
     \/ /\ Len(d) = 10
        /\ \A i \in {1, 2, 3, 4, 6, 7, 9, 10} : d[i] \in Digits
        /\ d[5] = "-" /\ d[8] = "-"

\* C18: for a date that carries a year and a month the path contains the
\* year-month bucket YYYY-MM ("2023-10" for 2023-10-25 and for 20231025)
\* when organize_by_month is set, and does not contain it when it is unset.
C18_YearMonthBucket ==
  (/\ IsCall("calculate_target_path")
   /\ HasYearAndMonth(Get(call.data, "date", <<>>))) =>
    (call.organize_by_month
       <=> Contains(call.ret, YearMonthOf(Get(call.data, "date", <<>>))))

\* number k of the sequence p, p_1, p_2, ...: the suffix stands before the
\* extension
Candidate(p, k) ==
  IF k = 0 THEN p
  ELSE splitext(p)[1] \o <<"_">> \o IntToStr(k) \o splitext(p)[2]

\* C19: the path returned is the first of p, p_1, p_2, ... that does not
\* exist in the snapshot: p itself when it is free, else p_k for the least
\* k >= 1 with p_k free; it never exists in the snapshot.
C19_FirstFreePath ==
  IsCall("get_safe_unique_path") =>
    /\ call.ret \notin call.fsys
    /\ \E k \in 0..Cardinality(call.fsys) :
         /\ call.ret = Candidate(call.target_path, k)
         /\ \A j \in 0..(k - 1) : Candidate(call.target_path, j) \in call.fsys

C19_Witness ==
  /\ IsCall("get_safe_unique_path")
  /\ call.target_path = <<"/", "O", "u", "t", "/", "f", ".", "p", "d", "f">>
  /\ call.ret = <<"/", "O", "u", "t", "/", "f", "_", "3", ".", "p", "d", "f">>

\* C20: against the snapshot of the call, resolving the returned path again
\* returns it unchanged.
C20_Idempotent ==
  IsCall("get_safe_unique_path") =>
    get_safe_unique_path(call.fsys, call.ret) = call.ret

C20_Witness ==
  /\ IsCall("get_safe_unique_path")
  /\ call.target_path \in call.fsys
  /\ call.ret = <<"/", "O", "u", "t", "/", "f", "_", "1", ".", "p", "d", "f">>
  /\ get_safe_unique_path(call.fsys, call.ret) = call.ret

(***************************************************************************)
(* C21: against a file system that does not change during the call,        *)
(* get_safe_unique_path never tests a path twice, and it returns: after at *)
(* most one test for each existing file and one more it has a path that    *)
(* does not exist.                                                         *)
(***************************************************************************)
ProbeReturned ==
  /\ pc = "returned"
  /\ ~Exists(call.fsys, call.ret)
  /\ call.ret \in call.checked
  /\ Cardinality(call.checked) <= Cardinality(call.fsys) + 1

C21_Terminates == [](~call.rechecked) /\ <>ProbeReturned

C21_Witness ==
  /\ ProbeReturned
  /\ call.counter = 3
  /\ Cardinality(call.checked) = 4

(***************************************************************************)
(* C22: a dry run never calls get_safe_unique_path, makes no folder and    *)
(* copies no file, and the target path it reports for a document that was  *)
(* not skipped is the result of calculate_target_path; a real run calls    *)
(* get_safe_unique_path exactly once for every document the parser did not *)
(* skip, before the copy of that document.                                 *)
(***************************************************************************)
\* the places in ops of the calls of op made for file number n
OpsOf(n, op) == {k \in DOMAIN ops : ops[k].n = n /\ ops[k].op = op}

OpsNamed(op) == {k \in DOMAIN ops : ops[k].op = op}

\* the parser skipped file number n
ParserSkipped(n) == ParsedDocs[files[n]][n].status = SKIPPED

NothingWrittenInDryRun ==
  cfg.is_dry =>
    /\ OpsNamed("get_safe_unique_path") = {}
    /\ OpsNamed("makedirs") = {}
    /\ OpsNamed("copy2") = {}

ResolvedOnceBeforeCopy ==
  ~cfg.is_dry =>
    \A n \in DOMAIN results :
      /\ Cardinality(OpsOf(n, "get_safe_unique_path")) =
           IF ParserSkipped(n) THEN 0 ELSE 1
      /\ \A c \in OpsOf(n, "copy2") :
           \E g \in OpsOf(n, "get_safe_unique_path") : g < c

\* as reported: the path of a dry run is the unresolved path itself
C22_ResolveOnlyWhenWriting ==
  /\ NothingWrittenInDryRun
  /\ ResolvedOnceBeforeCopy
  /\ cfg.is_dry =>
       \A n \in DOMAIN results :
         ~ParserSkipped(n) =>
            results[n].target_path = TargetFull(results[n])

(***************************************************************************)
(* C22, amended: as above, but the target path a dry run reports is the    *)
(* result of calculate_target_path followed by the marker " (preview)".    *)
(***************************************************************************)
C22_ResolveOnlyWhenWritingMarked ==
  /\ NothingWrittenInDryRun
  /\ ResolvedOnceBeforeCopy
  /\ cfg.is_dry =>
       \A n \in DOMAIN results :
         ~ParserSkipped(n) =>
            results[n].target_path = TargetFull(results[n]) \o PreviewSuffix

\* a dry run over a document whose unresolved path is already taken
C22_Witness ==
  /\ cfg.is_dry
  /\ pc = "done"
  /\ \E n \in DOMAIN results :
       /\ ~ParserSkipped(n)
       /\ TargetFull(results[n]) \in fs
       /\ results[n].target_path = TargetFull(results[n]) \o PreviewSuffix

(***************************************************************************)
(* C23: no failure of one document (its text cannot be read, its copy      *)
(* fails with an OSError or with another exception) aborts the batch: once *)
(* the worker is in its loop it takes every file in turn, records a result *)
(* for each, and after the last one runs save_reports and sends exactly    *)
(* one completion message, the last message of the run.                    *)
(***************************************************************************)
\* Which step the worker takes next does not depend on the naming scheme, on
\* the month folders, on the C library or on the files already in the output
\* folder: the fair runs take one choice of them.  The worker thread runs whenever it can take a step.
InitFair ==
  /\ Init
  /\ platform = "pads_year"
  /\ cfg.scheme = INVOICE_NUMBER
  /\ ~cfg.by_month
  /\ fs = {}

FairSpec == InitFair /\ [][Next]_vars /\ WF_vars(Next)

\* the messages of one type
Messages(type) == {k \in DOMAIN queue : queue[k].type = type}

\* file number n failed: it could not be read, or its copy raised
Failed(n) ==
  \/ ReadFailed(files[n])
  \/ /\ results[n].status = SKIPPED
     /\ ~ParserSkipped(n)

BatchCompleted ==
  /\ pc = "done"
  /\ Len(results) = Len(files)
  /\ \A n \in DOMAIN files : results[n].filename = ListedNames[n]
  /\ Messages("done") = {Len(queue)}
  /\ Cardinality(Messages("row")) = Len(files)

C23_NeverAborted ==
  /\ [](Cardinality(Messages("done")) <= 1)
  /\ (pc = "loop") ~> BatchCompleted

\* a batch whose first file cannot be read and whose second fails to copy
C23_Witness ==
  /\ BatchCompleted
  /\ Len(files) = 2
  /\ ReadFailed(files[1])
  /\ ~ReadFailed(files[2])
  /\ Failed(2)

(***************************************************************************)
(* C24: the outcome of every document of a batch (status, reason, field    *)
(* map, proposed filename, target path) is the outcome the worker gives    *)
(* that document when it is the only one processed against the output      *)
(* folder as it was when the batch started; a failed copy changes status   *)
(* and reason whatever the other documents are.                            *)
(***************************************************************************)
\* steps 1 and 2 for file number n
ParsedAlone(n) ==
  [ParsedDocs[files[n]][n] EXCEPT !.proposed_filename =
     ProposedNames[files[n]][n][cfg.scheme][PadsYear]]

\* the paths this batch has copied to, and the output folder before it
CopiedTo(ks) == {ops[k].path : k \in ks}

OutputAtStart == fs \ CopiedTo(OpsNamed("copy2"))

\* the copy of file number n raised
CopyRaised(n) ==
  /\ OpsOf(n, "makedirs") # {}
  /\ results[n].status = SKIPPED
  /\ \/ StartsWith(results[n].reason, <<"Permission/Write Error: ">>)
     \/ StartsWith(results[n].reason, <<"System Error: ">>)

\* the target path of file number n processed alone
TargetAlone(n) ==
  IF ParserSkipped(n) THEN NotApplicable
  ELSE IF cfg.is_dry THEN TargetFull(results[n]) \o PreviewSuffix
  ELSE get_safe_unique_path(OutputAtStart, TargetFull(results[n]))

\* all of the outcome but the target path
SameButTarget(n) ==
  LET alone == ParsedAlone(n)
      r     == results[n]
  IN /\ r.filename = alone.filename
     /\ r.data = alone.data
     /\ r.proposed_filename = alone.proposed_filename
     /\ \/ r.status = alone.status /\ r.reason = alone.reason
        \/ CopyRaised(n)

C24_IndependentOutcomes ==
  pc \in {"loop", "place"} =>
    \A n \in DOMAIN results :
      /\ SameButTarget(n)
      /\ results[n].target_path = TargetAlone(n)

(***************************************************************************)
(* C24, amended: status, reason, field map and proposed filename of every  *)
(* document, and its target path in a dry run, are what the document gets  *)
(* alone.  In a real run the target path is the one the document gets      *)
(* alone unless the copy of an earlier document of the batch went to that  *)
(* path; then it is the unresolved path, with a numeric suffix when that   *)
(* copy left a file.                                                       *)
(***************************************************************************)
\* the paths the files before number n were copied to
CopiedBefore(n) ==
  CopiedTo({k \in OpsNamed("copy2") : ops[k].n < n})

C24_IndependentButSuffix ==
  pc \in {"loop", "place"} =>
    \A n \in DOMAIN results :
      /\ SameButTarget(n)
      /\ IF TargetAlone(n) \in CopiedBefore(n)
         THEN \E k \in 0..(Cardinality(fs) + 1) :
                results[n].target_path =
                  Candidate(TargetFull(results[n]), k)
         ELSE results[n].target_path = TargetAlone(n)

\* two documents with the same unresolved path, both copied
C24_Witness ==
  /\ pc = "loop"
  /\ Len(results) = 2
  /\ ~cfg.is_dry
  /\ results[1].status # SKIPPED
  /\ results[2].status # SKIPPED
  /\ TargetFull(results[1]) = TargetFull(results[2])
  /\ results[1].target_path = TargetAlone(1)
  /\ results[2].target_path # TargetAlone(2)

(***************************************************************************)
(* C25: with two writers and no lock, a copy replaces an existing file     *)
(* only if the other writer copied to that path after this writer's        *)
(* existence check and before its copy; without such a copy in between the *)
(* path is free when the file is written.  Two interleaved sequences for   *)
(* one target can get the same path, and then the second copy replaces the *)
(* first (the witness).                                                    *)
(***************************************************************************)
\* the other writer copied to the same path between calls number g and c
CopiedBetween(g, c) ==
  \E j \in (g + 1)..(c - 1) :
    /\ ops[j].op = "copy2"
    /\ ops[j].n # ops[c].n
    /\ ops[j].path = ops[c].path

C25_FreeUnlessInterleaved ==
  \A c \in OpsNamed("copy2") :
    \E g \in OpsOf(ops[c].n, "get_safe_unique_path") :
      /\ g < c
      /\ ops[g].path = ops[c].path
      /\ ~ops[g].existed
      /\ ops[c].existed <=> CopiedBetween(g, c)

\* both writers resolved the same target to the same path before either
\* copied, and the second copy replaced the file of the first
C25_Witness ==
  /\ \A w \in Writers : pc[w] = "done"
  /\ res[1].target_full = res[2].target_full
  /\ res[1].safe_path = res[2].safe_path
  /\ Len(ops) = 4
  /\ ops[1].op = "get_safe_unique_path"
  /\ ops[2].op = "get_safe_unique_path"
  /\ ~ops[3].existed
  /\ ops[4].existed

(***************************************************************************)
(* C26: the total amount of a readable document is the last decimal amount *)
(* of the first line (carriage returns are line ends too) that contains    *)
(* "total" in any case, does not contain "sub" and holds a decimal amount; *)
(* the lines after it do not matter, and the total is absent when no line  *)
(* qualifies.                                                              *)
(***************************************************************************)
\* the lines of the text of the call
CallLines == Split(NormalizeNewlines(extract_text_from_pdf(call.pdf)[1]), "\n")

\* the word occurs in the line, in any case
HasWord(line, word) ==
  \E i \in 1..(Len(line) - Len(word) + 1) :
    \A j \in 1..Len(word) : LowerChar(line[i + j - 1]) = word[j]

\* the decimal amounts of the line, from left to right
AmountTokens(line) == FindAmounts(line, 1)

Qualifies(line) ==
  /\ HasWord(line, <<"t", "o", "t", "a", "l">>)
  /\ ~HasWord(line, <<"s", "u", "b">>)
  /\ AmountTokens(line) # <<>>

C26_TotalFromFirstTotalLine ==
  (IsCall("process_single_pdf") /\ ~ReadFailed(call.pdf)) =>
    LET total == call.ret.data["total_amount"]
    IN \/ /\ total = None
          /\ \A i \in DOMAIN CallLines : ~Qualifies(CallLines[i])
       \/ \E i \in DOMAIN CallLines :
            /\ Qualifies(CallLines[i])
            /\ \A j \in 1..(i - 1) : ~Qualifies(CallLines[j])
            /\ total = AmountTokens(CallLines[i])[Len(AmountTokens(CallLines[i]))]

\* a "total" line without an amount, then two qualifying lines with
\* different amounts: the first of the two decides
C26_Witness ==
  /\ IsCall("process_single_pdf")
  /\ ~ReadFailed(call.pdf)
  /\ Len(CallLines) = 3
  /\ HasWord(CallLines[1], <<"t", "o", "t", "a", "l">>)
  /\ ~Qualifies(CallLines[1])
  /\ Qualifies(CallLines[2])
  /\ Qualifies(CallLines[3])
  /\ call.ret.data["total_amount"] = <<"7", ".", "0", "0">>

(***************************************************************************)
(* C27: the invoice number of a readable document, in lower case, is never *)
(* "date", "no" or "number".  It is the match of the labelled pattern when *)
(* that match is not one of these words; else the digits of the first      *)
(* "#" followed by four or more digits; else it is absent.                 *)
(***************************************************************************)
CallText == NormalizeNewlines(extract_text_from_pdf(call.pdf)[1])

LabelWords ==
  {<<"d", "a", "t", "e">>, <<"n", "o">>, <<"n", "u", "m", "b", "e", "r">>}

\* a match that is kept
Accepted(m) ==
  /\ m # None
  /\ [i \in DOMAIN m |-> LowerChar(m[i])] \notin LabelWords

\* the leftmost matches of the two patterns in the text of the call
LabelledMatch == Search([i \in DOMAIN CallText |-> InvPattern1At(CallText, i)])

HashMatch == Search([i \in DOMAIN CallText |-> InvPattern2At(CallText, i)])

C27_InvoiceNumberNotALabel ==
  (IsCall("process_single_pdf") /\ ~ReadFailed(call.pdf)) =>
    LET inv == call.ret.data["invoice_number"]
    IN /\ inv # None => Accepted(inv)
       /\ IF Accepted(LabelledMatch) THEN inv = LabelledMatch
          ELSE IF HashMatch # None
          THEN /\ inv = HashMatch
               /\ Len(inv) >= 4
               /\ Range(inv) \subseteq Digits
          ELSE inv = None

\* the labelled pattern matches the next label, and the "#" pattern decides
C27_Witness ==
  /\ IsCall("process_single_pdf")
  /\ ~ReadFailed(call.pdf)
  /\ LabelledMatch = <<"D", "a", "t", "e">>
  /\ call.ret.data["invoice_number"] = <<"1", "2", "3", "4", "5">>

(***************************************************************************)
(* C28: in a real batch of the one worker, with no other writer, every     *)
(* copy goes to a path that did not exist just before it, so no file that  *)
(* was there before the batch and no file written earlier in the batch is  *)
(* replaced; two documents with the same proposed name and folder that     *)
(* were both copied have different target paths, the later one with a      *)
(* numeric suffix.                                                         *)
(***************************************************************************)
\* the copies of the step
CopiesOfStep == {k \in DOMAIN ops' : k > Len(ops) /\ ops'[k].op = "copy2"}

CopyToFreePath ==
  \A k \in CopiesOfStep :
    /\ ~Exists(fs, ops'[k].path)
    /\ results'[Len(results')].target_path = ops'[k].path

\* file number n was copied
Copied(n) == OpsOf(n, "copy2") # {} /\ results[n].status # SKIPPED

DistinctTargets ==
  \A m, n \in DOMAIN results :
    (m < n /\ Copied(m) /\ Copied(n)
       /\ TargetFull(results[m]) = TargetFull(results[n])) =>
      /\ results[m].target_path # results[n].target_path
      /\ results[m].target_path \in fs
      /\ \E k \in 1..Cardinality(fs) :
           results[n].target_path = Candidate(TargetFull(results[n]), k)

C28_NeverOverwrites == [][CopyToFreePath]_vars /\ []DistinctTargets

\* the path was taken before the batch: the two copies get _1 and _2
C28_Witness ==
  /\ Len(results) = 2
  /\ Copied(1)
  /\ Copied(2)
  /\ TargetFull(results[1]) = TargetFull(results[2])
  /\ TargetFull(results[1]) \in fs
  /\ results[1].target_path = Candidate(TargetFull(results[1]), 1)
  /\ results[2].target_path = Candidate(TargetFull(results[2]), 2)

(***************************************************************************)
(* C29: a document the parser classified SKIPPED is never copied, in a dry *)
(* run or a real run: the worker reports "N/A" as its target path, makes   *)
(* no call of calculate_target_path or get_safe_unique_path for it and     *)
(* leaves the file system as it is while it handles the document.          *)
(***************************************************************************)
\* the worker is deciding what to do with a document the parser skipped
PlacingSkipped == pc = "place" /\ res.status = SKIPPED

SkippedLeftAlone ==
  \A n \in DOMAIN results :
    ParserSkipped(n) =>
      /\ results[n].target_path = NotApplicable
      /\ results[n].status = SKIPPED
      /\ \A k \in DOMAIN ops : ops[k].n # n

C29_SkippedNeverCopied ==
  /\ []SkippedLeftAlone
  /\ [][PlacingSkipped => (fs' = fs /\ ops' = ops)]_vars

\* a real run that skips its first document, a scan without a text layer,
\* and copies the second
C29_Witness ==
  /\ ~cfg.is_dry
  /\ Len(results) = 2
  /\ files[1].text = ScannedText
  /\ ParserSkipped(1)
  /\ results[1].target_path = NotApplicable
  /\ Copied(2)

(***************************************************************************)
(* C30: sanitize_filename never returns the empty string, and for every    *)
(* original filename, field map and scheme the proposed filename is        *)
(* ".pdf" after a stem of at least one character.                          *)
(***************************************************************************)
C30_NonEmptyStem ==
  /\ IsCall("sanitize_filename") => call.ret # <<>>
  /\ IsCall("generate_proposed_filename") =>
       /\ EndsWith(call.ret, PdfExt)
       /\ Len(call.ret) > Len(PdfExt)

====
